---- MODULE Spec2Model ----
(***************************************************************************)
(* The in-memory sliding-window rate limiter (class RateLimit), the login   *)
(* route handler that consults it, and the index route with its middleware *)
(* and loader.                                                             *)
(*                                                                         *)
(* A JavaScript value that may be null/undefined is modelled as a sequence *)
(* of length 0 (absent) or 1 (present): <<>> is null, <<"">> the empty     *)
(* string, <<"a">> the string "a".                                         *)
(***************************************************************************)
EXTENDS Integers, Sequences, FiniteSets, TLC

VARIABLES options, requests, log, pc, context, loaderData

vars == <<options, requests, log, pc, context, loaderData>>

----------------------------------------------------------------------------
(* Bounds of the model *)

MaxChecks == 4
MaxTime == 4
MaxPairChecks == 2
MaxKeyChecks == 2
MaxHandlers == 3
MaxShortTime == 2
MaxScenarioChecks == 5
MaxRouteRequests == 3

(* The limiter instances: loginRateLimit and a second instance built by the *)
(* same constructor.                                                        *)
loginRateLimit == 1
Limiters == {1, 2}

Times == 0..MaxTime
ShortTimes == 0..MaxShortTime

----------------------------------------------------------------------------
(* JavaScript values *)

NULL == <<>>

Str(s) == <<s>>

\* JS truthiness of a string-or-null value: null and "" are falsy.
Truthy(v) == v # NULL /\ v[1] # ""

\* The JS expression  a || b
Or(a, b) == IF Truthy(a) THEN a ELSE b

\* (mutant) the filter keeps a timestamp that is exactly windowMs old
validRequestsOf_AtBoundary(userRequests, windowStart) ==
    SelectSeq(userRequests, LAMBDA time : time >= windowStart)

\* Array.prototype.filter with the predicate (time) => time > windowStart
validRequestsOf(userRequests, windowStart) ==
    SelectSeq(userRequests, LAMBDA time : time > windowStart)

\* (mutant) one array is shared by all the keys of the map
MapSet_AllKeys(reqs, l, key, value) ==
    [reqs EXCEPT ![l] = [k \in (DOMAIN @) \cup {key} |-> value]]

\* (mutant) the map is shared by all instances of the class
MapSet_Static(reqs, l, key, value) ==
    [m \in DOMAIN reqs |-> (key :> value) @@ reqs[m]]

\* (mutant) storing a key's array drops the entries of the other keys
MapSet_Evict(reqs, l, key, value) ==
    [reqs EXCEPT ![l] = (key :> value)]

\* Map.prototype.set on the instance field `requests` of limiter l
MapSet(reqs, l, key, value) ==
    [reqs EXCEPT ![l] = (key :> value) @@ @]

\* Map.prototype.has
MapHas(reqs, l, key) == key \in DOMAIN reqs[l]

----------------------------------------------------------------------------
(* RateLimit.getIP and the key expression of RateLimit.check *)

\* (mutant) x-real-ip is consulted before x-forwarded-for
getIP_RealIpFirst(request) ==
    Or(request.xri, Or(request.xff, Str("unknown")))[1]

getIP(request) ==
    Or(request.xff, Or(request.xri, Str("unknown")))[1]

\* this.options.keyGenerator?.(request): undefined when no generator is
\* configured, otherwise what the generator returns for this request.
keyGeneratorCall(opts, request) ==
    IF opts.keyGenerator THEN request.gen ELSE NULL

\* (mutant) an empty generator result is replaced by the literal fallback
keyOf_LiteralFallback(opts, request) ==
    IF Truthy(keyGeneratorCall(opts, request))
    THEN keyGeneratorCall(opts, request)[1]
    ELSE IF opts.keyGenerator THEN "unknown" ELSE getIP(request)

keyOf(opts, request) ==
    IF Truthy(keyGeneratorCall(opts, request))
    THEN keyGeneratorCall(opts, request)[1]
    ELSE getIP(request)

----------------------------------------------------------------------------
(* RateLimit.check, as pure functions of the stored array, the clock and   *)
(* the options                                                             *)

\* (mutant) the window is one millisecond too short
windowStartOf_Short(opts, now) == now - opts.windowMs + 1

\* (mutant) the window is one millisecond too long
windowStartOf_Long(opts, now) == now - opts.windowMs - 1

windowStartOf(opts, now) == now - opts.windowMs

\* (mutant) the handler works on a snapshot taken before any other handler
\* wrote
userRequestsOf_Stale(reqs, l, key) == << >>

\* this.requests.get(key)! after the has/set([]) of lines 793-795
userRequestsOf(reqs, l, key) ==
    IF MapHas(reqs, l, key) THEN reqs[l][key] ELSE <<>>

\* (mutant) the comparison lets one request too many through
checkResult_OffByOne(opts, userRequests, now) ==
    ~ (Len(validRequestsOf(userRequests, windowStartOf(opts, now)))
          > opts.maxRequests)

\* the value check returns
checkResult(opts, userRequests, now) ==
    ~ (Len(validRequestsOf(userRequests, windowStartOf(opts, now)))
          >= opts.maxRequests)

\* (mutant) a denied request is recorded as well
storedAfter_RecordDenied(opts, userRequests, now) ==
    IF checkResult(opts, userRequests, now)
    THEN Append(validRequestsOf(userRequests, windowStartOf(opts, now)), now)
    ELSE Append(userRequests, now)

\* (mutant) an admitted request is appended to the unfiltered array
storedAfter_NoPrune(opts, userRequests, now) ==
    IF checkResult(opts, userRequests, now)
    THEN Append(userRequests, now)
    ELSE userRequests

\* the array stored under the key when check returns
storedAfter(opts, userRequests, now) ==
    IF checkResult(opts, userRequests, now)
    THEN Append(validRequestsOf(userRequests, windowStartOf(opts, now)), now)
    ELSE userRequests

\* the whole of check(request) on limiter l with Date.now() = now
check(l, request, now) ==
    LET key == keyOf(options[l], request)
        userRequests == userRequestsOf(requests, l, key)
    IN  /\ requests' = MapSet(requests, l, key,
                              storedAfter(options[l], userRequests, now))
        /\ log' = [log EXCEPT ![l] = Append(@,
                      [request |-> request, key |-> key, now |-> now,
                       result |-> checkResult(options[l], userRequests, now)])]
        /\ UNCHANGED <<options, context, loaderData>>

----------------------------------------------------------------------------
(* Inputs *)

Request(xff, xri, gen) == [xff |-> xff, xri |-> xri, gen |-> gen]

\* requests of two clients behind a proxy that sets x-forwarded-for
Requests == { Request(Str("a"), NULL, NULL), Request(Str("b"), NULL, NULL) }

\* what the constructor accepts: it stores the options without looking at them
WindowValues == {0, 2, 3}
MaxRequestsValues == {-1, 0, 1, 2}

Options(w, m, g) == [windowMs |-> w, maxRequests |-> m, keyGenerator |-> g]

----------------------------------------------------------------------------
(* The limiter alone: calls of loginRateLimit.check at arbitrary clock     *)
(* readings (Date.now() is wall-clock time and may repeat or go back).     *)

Init ==
    /\ \E w \in WindowValues, m \in MaxRequestsValues :
          options = [l \in Limiters |-> Options(w, m, FALSE)]
    /\ requests = [l \in Limiters |-> << >>]
    /\ log = [l \in Limiters |-> << >>]
    /\ pc = << >>
    /\ context = << >>
    /\ loaderData = << >>

Check ==
    /\ Len(log[loginRateLimit]) < MaxChecks
    /\ \E request \in Requests, now \in Times :
          check(loginRateLimit, request, now)
    /\ UNCHANGED pc

Next == Check

Spec == Init /\ [][Next]_vars

----------------------------------------------------------------------------
(* Vocabulary of the properties *)

theLog == log[loginRateLimit]
theOptions == options[loginRateLimit]
theRequests == requests[loginRateLimit]

Keys == { keyOf(theOptions, request) : request \in Requests }

\* the check calls were made at strictly increasing clock readings
StrictlyIncreasing(lg) ==
    \A i, j \in DOMAIN lg : i < j => lg[i].now < lg[j].now

\* the calls for `key` that returned true inside the trailing window of
\* length windowMs that ends at time T, i.e. at the instants T-windowMs+1..T
AdmittedInWindow(lg, key, T, windowMs) ==
    { i \in DOMAIN lg : /\ lg[i].key = key
                        /\ lg[i].result
                        /\ lg[i].now > T - windowMs
                        /\ lg[i].now <= T }

\* number of stored timestamps strictly greater than now - windowMs
InWindowCount(stored, now, windowMs) ==
    Cardinality({ i \in DOMAIN stored : stored[i] > now - windowMs })

\* a step that is a call of loginRateLimit.check
IsCheckStep == Len(log'[loginRateLimit]) = Len(theLog) + 1
Called == log'[loginRateLimit][Len(log'[loginRateLimit])]
StoredBefore(key) == userRequestsOf(requests, loginRateLimit, key)
StoredAfter(key) == requests'[loginRateLimit][key]

----------------------------------------------------------------------------
\* C1  Admission bound: when the check calls are made at strictly increasing
\* clock readings, then for every client key and every trailing window of
\* length windowMs the number of calls that returned true in that window is
\* at most maxRequests (maxRequests a count, i.e. not negative).
C1_AdmissionBound ==
    (theOptions.maxRequests >= 0 /\ StrictlyIncreasing(theLog)) =>
        \A key \in Keys, T \in Times :
            Cardinality(AdmittedInWindow(theLog, key, T, theOptions.windowMs))
                <= theOptions.maxRequests

\* a window that is full (maxRequests = 2 admissions in it) after a denial
C1_Witness ==
    /\ theOptions.maxRequests = 2 /\ theOptions.windowMs = 3
    /\ StrictlyIncreasing(theLog) /\ Len(theLog) = MaxChecks
    /\ \E i \in DOMAIN theLog : ~ theLog[i].result
    /\ \E key \in Keys, T \in Times :
          Cardinality(AdmittedInWindow(theLog, key, T, 3)) = 2

\* C2  Decision rule: check for key k at time now returns false exactly
\* when the number of timestamps stored for k that are strictly greater
\* than now - windowMs is at least maxRequests, and true otherwise; an
\* admitted request leaves at most maxRequests timestamps in the window, and
\* once it has brought the in-window count to exactly maxRequests a further
\* check at that instant is denied.
C2_DecisionRule ==
    [][IsCheckStep =>
        LET key == Called.key
            now == Called.now
            w == theOptions.windowMs
            m == theOptions.maxRequests
        IN  /\ Called.result = FALSE
                <=> InWindowCount(StoredBefore(key), now, w) >= m
            /\ Called.result = TRUE
                <=> InWindowCount(StoredBefore(key), now, w) < m
            /\ (Called.result /\ w > 0) =>
                  /\ InWindowCount(StoredAfter(key), now, w) <= m
                  /\ InWindowCount(StoredAfter(key), now, w) = m =>
                        ~ checkResult(theOptions, StoredAfter(key), now)
    ]_vars

\* windowMs = 2, maxRequests = 2: three admissions for "a" (so one stored
\* timestamp had left the window) and then a denial at a full window
C2_Witness ==
    /\ theOptions.maxRequests = 2 /\ theOptions.windowMs = 2
    /\ Len(theLog) >= 4
    /\ theLog[1].result /\ theLog[2].result /\ theLog[3].result
    /\ ~ theLog[4].result
    /\ \A i \in 1..4 : theLog[i].key = "a"

----------------------------------------------------------------------------
(* The limiter configured with windowMs = 1000 and maxRequests = 3, called *)
(* for the client "k" at clock readings drawn from 0, 100, 200, 900, 1001  *)
(* in any order.                                                           *)

ScenarioTimes == {0, 100, 200, 900, 1001}
ScenarioRequest == Request(Str("k"), NULL, NULL)

InitScenario ==
    /\ options = [l \in Limiters |-> Options(1000, 3, FALSE)]
    /\ requests = [l \in Limiters |-> << >>]
    /\ log = [l \in Limiters |-> << >>]
    /\ pc = << >>
    /\ context = << >>
    /\ loaderData = << >>

CheckScenario ==
    /\ Len(log[loginRateLimit]) < MaxScenarioChecks
    /\ \E now \in ScenarioTimes :
          check(loginRateLimit, ScenarioRequest, now)
    /\ UNCHANGED pc

NextScenario == CheckScenario

SpecScenario == InitScenario /\ [][NextScenario]_vars

\* how often the timestamp t occurs in a stored array
Occurrences(stored, t) == Cardinality({ i \in DOMAIN stored : stored[i] = t })

\* the array check would hold for one key after the calls of lg, had the
\* calls that returned false never been made
RECURSIVE StoredByAdmitted(_, _)
StoredByAdmitted(opts, lg) ==
    IF lg = << >> THEN << >>
    ELSE LET before == StoredByAdmitted(opts, SubSeq(lg, 1, Len(lg) - 1))
             last == lg[Len(lg)]
         IN  IF last.result THEN storedAfter(opts, before, last.now)
             ELSE before

\* C3  Denied requests are never recorded: every stored timestamp is the
\* clock reading of a call that returned true (counted with multiplicity),
\* the stored array and every decision are what they would be had the
\* denied calls never been made, and with windowMs = 1000, maxRequests = 3
\* the calls for "k" at 0, 100, 200, 900, 1001 return true, true, true,
\* false, true.
C3_DeniedNotRecorded ==
    /\ \A key \in DOMAIN theRequests, t \in ScenarioTimes :
          Occurrences(theRequests[key], t)
             <= Cardinality({ i \in DOMAIN theLog :
                   theLog[i].key = key /\ theLog[i].result
                                       /\ theLog[i].now = t })
    /\ \A key \in DOMAIN theRequests :
          theRequests[key] = StoredByAdmitted(theOptions, theLog)
    /\ \A i \in DOMAIN theLog :
          theLog[i].result =
             checkResult(theOptions,
                         StoredByAdmitted(theOptions, SubSeq(theLog, 1, i - 1)),
                         theLog[i].now)
    /\ [i \in DOMAIN theLog |-> theLog[i].now] = <<0, 100, 200, 900, 1001>>
          => [i \in DOMAIN theLog |-> theLog[i].result]
                = <<TRUE, TRUE, TRUE, FALSE, TRUE>>

\* the five calls of the scenario have been made, the fourth was denied
C3_Witness ==
    /\ [i \in DOMAIN theLog |-> theLog[i].now] = <<0, 100, 200, 900, 1001>>
    /\ ~ theLog[4].result
    /\ theLog[5].result
    /\ theRequests["k"] = <<100, 200, 1001>>

----------------------------------------------------------------------------
\* the calls of lg that were made for `key`, in call order
KeyLog(lg, key) == SelectSeq(lg, LAMBDA e : e.key = key)

\* C4  Boundary exclusion: a stored timestamp t counts for a check at time
\* now exactly while now < t + windowMs.  With 1 <= maxRequests < windowMs,
\* after the calls for one key at t0, t0+1, .., t0+maxRequests (the first
\* maxRequests of them admitted, the last denied) a next call at exactly
\* t0 + windowMs is admitted and a next call at t0 + windowMs - 1 is denied.
C4_BoundaryExclusion ==
    LET w == theOptions.windowMs
        m == theOptions.maxRequests
    IN  /\ \A key \in DOMAIN theRequests, T \in 0..(MaxTime + 3) :
              checkResult(theOptions, theRequests[key], T)
                 = (Cardinality({ i \in DOMAIN theRequests[key] :
                                     T < theRequests[key][i] + w }) < m)
        /\ (1 <= m /\ m < w) =>
             \A key \in Keys, t0 \in Times :
                LET kl == KeyLog(theLog, key)
                IN  (/\ Len(kl) >= m + 2
                     /\ \A i \in 1..(m + 1) : kl[i].now = t0 + i - 1)
                    => /\ \A i \in 1..m : kl[i].result
                       /\ ~ kl[m + 1].result
                       /\ kl[m + 2].now = t0 + w => kl[m + 2].result
                       /\ kl[m + 2].now = t0 + w - 1 => ~ kl[m + 2].result

\* windowMs = 3, maxRequests = 2: calls at 0, 1, 2 and the probe at 0 + 3
C4_Witness ==
    /\ theOptions.windowMs = 3 /\ theOptions.maxRequests = 2
    /\ Len(theLog) = 4
    /\ \A i \in 1..4 : theLog[i].key = "a" /\ theLog[i].now = i - 1
    /\ theLog[4].result
    /\ theRequests["a"] = <<1, 3>>

----------------------------------------------------------------------------
(* The login route: requests arrive and their `action` handlers run on the *)
(* event loop in any order.  A handler runs without suspension from its    *)
(* start through loginRateLimit.check; it then either throws the 429       *)
(* response or goes on to process the login, where other handlers may run. *)

Handlers == 1..MaxHandlers

Idle == [state |-> "idle", request |-> << >>, entry |-> 0]

InitLogin ==
    /\ \E w \in {0, 2}, m \in {0, 1, 2} :
          options = [l \in Limiters |-> Options(w, m, FALSE)]
    /\ requests = [l \in Limiters |-> << >>]
    /\ log = [l \in Limiters |-> << >>]
    /\ pc = [h \in Handlers |-> Idle]
    /\ context = << >>
    /\ loaderData = << >>

\* a request for the login route reaches the server
Arrive(h) ==
    /\ pc[h].state = "idle"
    /\ \A g \in Handlers : g < h => pc[g].state # "idle"
    /\ \E request \in Requests :
          pc' = [pc EXCEPT ![h] = [state |-> "pending",
                                   request |-> <<request>>, entry |-> 0]]
    /\ UNCHANGED <<options, requests, log, context, loaderData>>

\* the handler's run from its start to the throw or to the login processing
action(h) ==
    /\ pc[h].state = "pending"
    /\ \E now \in ShortTimes : check(loginRateLimit, pc[h].request[1], now)
    /\ pc' = [pc EXCEPT ![h] =
                [state |-> IF log'[loginRateLimit][Len(log'[loginRateLimit])].result
                           THEN "processing" ELSE "throw429",
                 request |-> pc[h].request,
                 entry |-> Len(log'[loginRateLimit])]]

\* "Process login...": the admitted handler completes
ProcessLogin(h) ==
    /\ pc[h].state = "processing"
    /\ pc' = [pc EXCEPT ![h].state = "done"]
    /\ UNCHANGED <<options, requests, log, context, loaderData>>

NextLogin ==
    \E h \in Handlers : Arrive(h) \/ action(h) \/ ProcessLogin(h)

SpecLogin == InitLogin /\ [][NextLogin]_vars

\* the clock never went back between two check calls
NonDecreasing(lg) ==
    \A i, j \in DOMAIN lg : i < j => lg[i].now <= lg[j].now

\* handlers that were admitted for `key` at an instant of the window of
\* length windowMs ending at T
AdmittedHandlers(key, T) ==
    { h \in Handlers :
        /\ pc[h].state \in {"processing", "done"}
        /\ theLog[pc[h].entry].key = key
        /\ theLog[pc[h].entry].now > T - theOptions.windowMs
        /\ theLog[pc[h].entry].now <= T }

\* C5  Requests in flight together are decided one after the other: with a
\* clock that does not go back, the handlers admitted for one key within
\* one window (also at one and the same instant) never number more than
\* maxRequests, and no admission is lost from the stored array: it holds
\* the key's last admitted timestamp preceded by exactly the admitted
\* timestamps that were in the window at that admission.
C5_NoDoubleAdmission ==
    (theOptions.maxRequests >= 0 /\ NonDecreasing(theLog)) =>
        /\ \A key \in Keys, T \in Times :
              Cardinality(AdmittedHandlers(key, T)) <= theOptions.maxRequests
        /\ \A key \in DOMAIN theRequests :
              LET admitted == SelectSeq(KeyLog(theLog, key), LAMBDA e : e.result)
                  times == [i \in DOMAIN admitted |-> admitted[i].now]
              IN  theRequests[key] =
                     IF times = << >> THEN << >>
                     ELSE Append(
                            SelectSeq(SubSeq(times, 1, Len(times) - 1),
                               LAMBDA t : t > times[Len(times)]
                                                - theOptions.windowMs),
                            times[Len(times)])

\* two handlers for the same key ran at the same instant with one slot
\* left; one was admitted and is still processing, the other threw
C5_Witness ==
    /\ theOptions.maxRequests = 1 /\ theOptions.windowMs = 2
    /\ pc[1].state = "throw429" /\ pc[2].state = "processing"
    /\ pc[3].state = "pending"
    /\ pc[1].request = pc[2].request
    /\ theLog[pc[1].entry].now = theLog[pc[2].entry].now

----------------------------------------------------------------------------
\* C6  Independence across keys: a check for key A leaves the array stored
\* for every other key B as it was (and adds no entry for B), so the result
\* a check for B would have at that same instant is the same before and
\* after; a client that has not been checked yet has nothing stored, however
\* many requests of other clients were admitted or denied.
C6_KeyIndependence ==
    [][IsCheckStep =>
        /\ \A B \in (Keys \cup DOMAIN theRequests) \ {Called.key} :
              /\ B \in DOMAIN requests'[loginRateLimit]
                    <=> B \in DOMAIN theRequests
              /\ B \in DOMAIN theRequests =>
                    requests'[loginRateLimit][B] = theRequests[B]
              /\ checkResult(theOptions,
                             userRequestsOf(requests', loginRateLimit, B),
                             Called.now)
                   = checkResult(theOptions,
                                 userRequestsOf(requests, loginRateLimit, B),
                                 Called.now)
        /\ \A request \in Requests :
              (\A i \in DOMAIN log'[loginRateLimit] :
                    log'[loginRateLimit][i].request # request)
              => userRequestsOf(requests', loginRateLimit,
                                keyOf(theOptions, request)) = << >>
    ]_vars

\* "a" has used up its budget and is denied; "b" is admitted at that instant
C6_Witness ==
    /\ theOptions.maxRequests = 1 /\ theOptions.windowMs = 3
    /\ Len(theLog) = 3
    /\ theLog[1].key = "a" /\ theLog[1].result
    /\ theLog[2].key = "a" /\ ~ theLog[2].result
    /\ theLog[3].key = "b" /\ theLog[3].result
    /\ theLog[1].now = 1 /\ theLog[2].now = 1 /\ theLog[3].now = 1

----------------------------------------------------------------------------
\* C7  A limiter whose windowMs or maxRequests is zero or negative is never
\* produced: no limiter with such a configuration answers check.
C7_InvalidConfigurationRejected ==
    theLog # << >> =>
        theOptions.windowMs > 0 /\ theOptions.maxRequests > 0

----------------------------------------------------------------------------
(* Key extraction: requests with every combination of an absent, an empty  *)
(* and a non-empty x-forwarded-for and x-real-ip header, for a limiter     *)
(* with and without a keyGenerator; request.gen is what the keyGenerator   *)
(* returns for the request.                                                *)

HeaderRequests ==
    { Request(xff, xri, gen) : xff \in {NULL, Str(""), Str("a")},
                               xri \in {NULL, Str(""), Str("b")},
                               gen \in {NULL, Str(""), Str("u")} }

InitKeys ==
    /\ \E g \in BOOLEAN :
          options = [l \in Limiters |-> Options(2, 1, g)]
    /\ requests = [l \in Limiters |-> << >>]
    /\ log = [l \in Limiters |-> << >>]
    /\ pc = << >>
    /\ context = << >>
    /\ loaderData = << >>

CheckKeys ==
    /\ Len(log[loginRateLimit]) < MaxKeyChecks
    /\ \E request \in HeaderRequests, now \in ShortTimes :
          check(loginRateLimit, request, now)
    /\ UNCHANGED pc

NextKeys == CheckKeys

SpecKeys == InitKeys /\ [][NextKeys]_vars

Present(header) == header # NULL
NonEmpty(v) == v # NULL /\ v # Str("")

\* the array of the last call is stored under the call's key
StoredUnderKey(e) == e.key \in DOMAIN theRequests

\* C8 as stated: without a keyGenerator the key is the x-forwarded-for value
\* if that header is present, otherwise the x-real-ip value if present,
\* otherwise "unknown"; with a keyGenerator that returns a non-empty string
\* the key is that string.
C8_KeyByPresence ==
    \A i \in DOMAIN theLog :
        LET e == theLog[i]
            r == e.request
        IN  /\ ~ theOptions.keyGenerator =>
                  e.key = IF Present(r.xff) THEN r.xff[1]
                          ELSE IF Present(r.xri) THEN r.xri[1]
                          ELSE "unknown"
            /\ (theOptions.keyGenerator /\ NonEmpty(r.gen)) => e.key = r.gen[1]

\* C8 (amended)  Without a keyGenerator the key used by check is the
\* x-forwarded-for value if that header is present and not empty, otherwise
\* the x-real-ip value if present and not empty, otherwise "unknown"; with a
\* keyGenerator that returns a non-empty string the key is that string; the
\* timestamps are stored under that key.
C8_KeyByNonEmptyHeader ==
    \A i \in DOMAIN theLog :
        LET e == theLog[i]
            r == e.request
        IN  /\ ~ theOptions.keyGenerator =>
                  e.key = IF NonEmpty(r.xff) THEN r.xff[1]
                          ELSE IF NonEmpty(r.xri) THEN r.xri[1]
                          ELSE "unknown"
            /\ (theOptions.keyGenerator /\ NonEmpty(r.gen)) => e.key = r.gen[1]
            /\ StoredUnderKey(e)

\* an empty x-forwarded-for header was passed over for x-real-ip, and a
\* request with both headers was keyed by x-forwarded-for
C8_Witness ==
    /\ ~ theOptions.keyGenerator
    /\ Len(theLog) = 2
    /\ theLog[1].request.xff = Str("") /\ theLog[1].request.xri = Str("b")
    /\ theLog[1].key = "b"
    /\ theLog[2].request.xff = Str("a") /\ theLog[2].request.xri = Str("b")
    /\ theLog[2].key = "a"
    /\ DOMAIN theRequests = {"a", "b"}

----------------------------------------------------------------------------
(* Two limiters constructed with the same options, each fed check calls    *)
(* independently of the other.                                             *)

InitPair ==
    /\ \E w \in {0, 2}, m \in {1, 2} :
          options = [l \in Limiters |-> Options(w, m, FALSE)]
    /\ requests = [l \in Limiters |-> << >>]
    /\ log = [l \in Limiters |-> << >>]
    /\ pc = << >>
    /\ context = << >>
    /\ loaderData = << >>

CheckPair(l) ==
    /\ Len(log[l]) < MaxPairChecks
    /\ \E request \in Requests, now \in ShortTimes : check(l, request, now)
    /\ UNCHANGED pc

NextPair == \E l \in Limiters : CheckPair(l)

SpecPair == InitPair /\ [][NextPair]_vars

\* the (key, timestamp) pairs a limiter was fed, and what it answered
Fed(lg) == [i \in DOMAIN lg |-> <<lg[i].key, lg[i].now>>]
Answers(lg) == [i \in DOMAIN lg |-> lg[i].result]

\* C9  Determinism: two limiters constructed with identical options and fed
\* the same sequence of (key, timestamp) checks have answered identically
\* and hold identical stored state; while one has been fed a prefix of what
\* the other was fed, its answers are that prefix of the other's answers.
C9_Determinism ==
    \A l1, l2 \in Limiters :
        (/\ options[l1] = options[l2]
         /\ Len(log[l1]) <= Len(log[l2])
         /\ Fed(log[l1]) = SubSeq(Fed(log[l2]), 1, Len(log[l1])))
        => /\ Answers(log[l1]) = SubSeq(Answers(log[l2]), 1, Len(log[l1]))
           /\ Len(log[l1]) = Len(log[l2]) => requests[l1] = requests[l2]

\* both limiters were fed the same two checks, the second of them denied
C9_Witness ==
    /\ Len(log[1]) = MaxPairChecks
    /\ Fed(log[1]) = Fed(log[2])
    /\ Answers(log[1])[1] /\ ~ Answers(log[1])[Len(log[1])]
    /\ options[1].maxRequests = 1
    /\ requests[2] # << >>

----------------------------------------------------------------------------
\* C10  Pruning persists on every outcome: after any check for key k at time
\* now, admitted or denied, the array stored for k is the array stored
\* before with every timestamp <= now - windowMs removed, followed by now if
\* the check was admitted; so for windowMs > 0 it holds no timestamp that is
\* <= now - windowMs.
C10_PrunedAfterCheck ==
    [][IsCheckStep =>
        LET key == Called.key
            now == Called.now
            w == theOptions.windowMs
            before == StoredBefore(key)
            kept == SelectSeq(before, LAMBDA t : ~ (t <= now - w))
        IN  /\ StoredAfter(key) =
                  IF Called.result THEN kept \o <<now>> ELSE kept
            /\ w > 0 => \A i \in DOMAIN StoredAfter(key) :
                           ~ (StoredAfter(key)[i] <= now - w)
    ]_vars

\* windowMs = 3, maxRequests = 2: "a" admitted at 0 and 1, denied at 1 with
\* nothing stale in store, then admitted at 4, where 0 and 1 are dropped
C10_Witness ==
    /\ theOptions.windowMs = 3 /\ theOptions.maxRequests = 2
    /\ Len(theLog) = 4
    /\ \A i \in 1..4 : theLog[i].key = "a"
    /\ [i \in 1..4 |-> theLog[i].now] = <<0, 1, 1, 4>>
    /\ [i \in 1..4 |-> theLog[i].result] = <<TRUE, TRUE, FALSE, TRUE>>
    /\ theRequests["a"] = <<4>>

----------------------------------------------------------------------------
\* the keyGenerator returned null or the empty string for the request
GeneratorGaveNothing(r) == r.gen = NULL \/ r.gen = Str("")

\* C11 as stated: when the configured keyGenerator returns an empty string
\* or null, the key used by check is "unknown", whatever address headers
\* the request carries.
C11_EmptyGeneratorGivesUnknown ==
    \A i \in DOMAIN theLog :
        (theOptions.keyGenerator /\ GeneratorGaveNothing(theLog[i].request))
            => theLog[i].key = "unknown"

\* C11 (amended)  When the configured keyGenerator returns an empty string
\* or null, the key used by check is the one of the default extraction: the
\* x-forwarded-for value if present and not empty, otherwise the x-real-ip
\* value if present and not empty, and "unknown" only when neither header
\* has a non-empty value.
C11_EmptyGeneratorFallsBackToHeaders ==
    \A i \in DOMAIN theLog :
        LET r == theLog[i].request
        IN  (theOptions.keyGenerator /\ GeneratorGaveNothing(r)) =>
               /\ theLog[i].key = IF NonEmpty(r.xff) THEN r.xff[1]
                                  ELSE IF NonEmpty(r.xri) THEN r.xri[1]
                                  ELSE "unknown"
               /\ theLog[i].key = "unknown"
                     <=> ~ NonEmpty(r.xff) /\ ~ NonEmpty(r.xri)

\* a keyGenerator that returned "" for a request with x-forwarded-for: a,
\* and null for a request without address headers
C11_Witness ==
    /\ theOptions.keyGenerator
    /\ Len(theLog) = 2
    /\ theLog[1].request = Request(Str("a"), NULL, Str(""))
    /\ theLog[1].key = "a"
    /\ theLog[2].request = Request(NULL, NULL, NULL)
    /\ theLog[2].key = "unknown"

----------------------------------------------------------------------------
\* C12  No eviction: every key that has been checked has an entry in the
\* request map (also when the check was denied), an entry never leaves the
\* map, and its array changes only in a step that is a check for that same
\* key: the arrival of a request, the login processing of a handler and the
\* checks for other keys leave it as it is, expired timestamps included.
C12_NoEviction ==
    [][/\ \A key \in DOMAIN theRequests :
             /\ key \in DOMAIN requests'[loginRateLimit]
             /\ requests'[loginRateLimit][key] # theRequests[key]
                   => IsCheckStep /\ Called.key = key
       /\ \A i \in DOMAIN log'[loginRateLimit] :
             log'[loginRateLimit][i].key \in DOMAIN requests'[loginRateLimit]
       /\ ~ IsCheckStep => requests' = requests
    ]_vars

\* windowMs = 2: "a" was admitted at 0 and its handler has completed; "b"
\* was checked at 2, when the timestamp of "a" had expired; it is still
\* stored
C12_Witness ==
    /\ theOptions.windowMs = 2 /\ theOptions.maxRequests = 1
    /\ Len(theLog) = 2
    /\ theLog[1].key = "a" /\ theLog[1].now = 0 /\ theLog[1].result
    /\ theLog[2].key = "b" /\ theLog[2].now = 2
    /\ \E h \in Handlers : pc[h].state = "done" /\ pc[h].entry = 1
    /\ theRequests["a"] = <<0>>
    /\ ~ (theRequests["a"][1] > theLog[2].now - theOptions.windowMs)

----------------------------------------------------------------------------
\* C13  Per-key storage bound: for maxRequests >= 1 the array stored for any
\* key never holds more than maxRequests timestamps, whatever the order of
\* the checks and of the clock readings (the clock may go back); for
\* maxRequests <= 0 every stored array is empty.
C13_StorageBound ==
    \A key \in DOMAIN theRequests :
        /\ theOptions.maxRequests >= 1
              => Len(theRequests[key]) <= theOptions.maxRequests
        /\ theOptions.maxRequests <= 0 => theRequests[key] = << >>

\* a full array (maxRequests = 2) built while the clock went back, and
\* two denials after it
C13_Witness ==
    /\ theOptions.maxRequests = 2 /\ theOptions.windowMs = 3
    /\ Len(theLog) = 4
    /\ \A i \in 1..4 : theLog[i].key = "a"
    /\ [i \in 1..4 |-> theLog[i].now] = <<4, 1, 2, 3>>
    /\ [i \in 1..4 |-> theLog[i].result] = <<TRUE, TRUE, FALSE, FALSE>>
    /\ theRequests["a"] = <<4, 1>>

\* the index in lg of the most recent call before call i that was made for
\* the key of call i and returned true; 0 if there is none
LastAdmittedBefore(lg, i) ==
    LET earlier == { j \in 1..(i - 1) : lg[j].key = lg[i].key /\ lg[j].result }
    IN  IF earlier = {} THEN 0
        ELSE CHOOSE j \in earlier : \A k \in earlier : k <= j

\* C14  No permanent lockout: with maxRequests >= 1, a check for key k made
\* at a time at least windowMs after the time of k's most recent admitted
\* request returns true (and so does the first check for a key); this holds
\* for every order of clock readings, in particular for a clock that does
\* not go back.
C14_NoPermanentLockout ==
    theOptions.maxRequests >= 1 =>
        \A i \in DOMAIN theLog :
            LET j == LastAdmittedBefore(theLog, i)
            IN  /\ j = 0 /\ KeyLog(SubSeq(theLog, 1, i - 1), theLog[i].key) = << >>
                      => theLog[i].result
                /\ (j # 0 /\ theLog[i].now >= theLog[j].now + theOptions.windowMs)
                      => theLog[i].result

\* windowMs = 2, maxRequests = 1: "a" admitted at 0, denied at 1, admitted
\* again at 2 = 0 + windowMs, with a clock that did not go back
C14_Witness ==
    /\ theOptions.maxRequests = 1 /\ theOptions.windowMs = 2
    /\ Len(theLog) = 3 /\ NonDecreasing(theLog)
    /\ \A i \in 1..3 : theLog[i].key = "a" /\ theLog[i].now = i - 1
    /\ [i \in 1..3 |-> theLog[i].result] = <<TRUE, FALSE, TRUE>>

----------------------------------------------------------------------------
(* The index route.  Every request gets a context provider of its own; the *)
(* route's middleware runs to completion before the route's loader, and    *)
(* the component renders the loader's data.  Requests are served           *)
(* concurrently: the steps of different requests interleave freely.        *)

RouteRequests == 1..MaxRouteRequests

\* export const userContext = createContext<User | null>(null)
userContext == "userContext"
userContextDefault == NULL

TestUser == Str([name |-> "Test user"])

\* context.set(key, value) and context.get(key) on one request's provider
ContextSet(provider, key, value) == (key :> value) @@ provider
ContextGet(provider, key, default) ==
    IF key \in DOMAIN provider THEN provider[key] ELSE default

\* (mutant) the middleware does not store the user
middlewareBody_NoSet(provider) == provider

\* the body of the route middleware, on the provider of its request
middlewareBody(provider) == ContextSet(provider, userContext, TestUser)

\* the value the loader returns, from the provider of its request
loaderBody(provider) ==
    Str([user |-> ContextGet(provider, userContext, userContextDefault)])

InitRoute ==
    /\ options = [l \in Limiters |-> Options(2, 1, FALSE)]
    /\ requests = [l \in Limiters |-> << >>]
    /\ log = [l \in Limiters |-> << >>]
    /\ pc = [r \in RouteRequests |-> "idle"]
    /\ context = [r \in RouteRequests |-> << >>]
    /\ loaderData = [r \in RouteRequests |-> NULL]

\* a request for the index route arrives and is given a fresh provider
Dispatch(r) ==
    /\ pc[r] = "idle"
    /\ context' = [context EXCEPT ![r] = << >>]
    /\ pc' = [pc EXCEPT ![r] = "middleware"]
    /\ UNCHANGED <<options, requests, log, loaderData>>

middleware(r) ==
    /\ pc[r] = "middleware"
    /\ context' = [context EXCEPT ![r] = middlewareBody(@)]
    /\ pc' = [pc EXCEPT ![r] = "loader"]
    /\ UNCHANGED <<options, requests, log, loaderData>>

loader(r) ==
    /\ pc[r] = "loader"
    /\ loaderData' = [loaderData EXCEPT ![r] = loaderBody(context[r])]
    /\ pc' = [pc EXCEPT ![r] = "render"]
    /\ UNCHANGED <<options, requests, log, context>>

\* the component renders "Home " followed by loaderData.user?.name
Home(r) ==
    /\ pc[r] = "render"
    /\ pc' = [pc EXCEPT ![r] = "done"]
    /\ UNCHANGED <<options, requests, log, context, loaderData>>

NextRoute ==
    \E r \in RouteRequests :
        Dispatch(r) \/ middleware(r) \/ loader(r) \/ Home(r)

SpecRoute == InitRoute /\ [][NextRoute]_vars

====
